---- MODULE Spec2Model ----
(***************************************************************************)
(* The opaque pass of rend3 (rend3/src/routines/opaque.rs): per frame,     *)
(* cull_opaque produces a CulledObjectSet with the host (CPU) or device    *)
(* (GPU) culler, then prepass and draw record bind and draw commands into  *)
(* a render pass.  The cullers, the two `run` helpers, ModeData::as_gpu    *)
(* and the frame loop that calls the pass live outside opaque.rs; they are *)
(* written here from the design document.                                  *)
(***************************************************************************)
EXTENDS Integers, Sequences, FiniteSets

(* ------------------------------ bounds -------------------------------- *)

MaxObjects == 3
MaxFrames == 2
MaxClock == 5

(* ------------------------------ inputs -------------------------------- *)

Tags == {"CPU", "GPU"}
Meshes == {1, 2}
MaterialHandles == {1, 2}
Positions == {0, 1}
Cameras == {0, 1}
Pipelines == {1, 2}

InternalObject == [mesh : Meshes, material : MaterialHandles, pos : Positions]

RECURSIVE SeqsUpTo(_, _)
SeqsUpTo(S, n) ==
    IF n = 0 THEN {<<>>}
    ELSE LET shorter == SeqsUpTo(S, n - 1)
         IN  shorter \cup {Append(s, x) : s \in {t \in shorter : Len(t) = n - 1}, x \in S}

ObjectLists == SeqsUpTo(InternalObject, MaxObjects)

RECURSIVE SumTo(_, _)
SumTo(f, n) == IF n = 0 THEN 0 ELSE f[n] + SumTo(f, n - 1)

SeqToSet(s) == {s[i] : i \in 1..Len(s)}

(* ----------------------- frustum test (both cullers) ------------------- *)

Visible(camera, obj) == obj.pos >= camera

Key(obj) == <<obj.mesh, obj.material>>

(* --------------------------- host culler ------------------------------- *)

\* index of the group holding key k, 0 when there is none
GroupIndex(groups, k) ==
    IF \E g \in 1..Len(groups) : groups[g].key = k
    THEN CHOOSE g \in 1..Len(groups) : groups[g].key = k
    ELSE 0

\* one step of the host culler's loop over the objects: discard an object
\* failing the frustum test, else add it to the group of its (mesh, material)
\* pair, opening a new group at the end when the pair is seen for the first time
CpuCullStep(groups, camera, objects, i) ==
    IF ~Visible(camera, objects[i]) THEN groups
    ELSE LET g == GroupIndex(groups, Key(objects[i]))
         IN  IF g = 0
             THEN Append(groups, [key |-> Key(objects[i]), members |-> <<i>>])
             ELSE [groups EXCEPT ![g].members = Append(@, i)]

RECURSIVE CpuCullLoop(_, _, _)
CpuCullLoop(camera, objects, n) ==
    IF n = 0 THEN <<>>
    ELSE CpuCullStep(CpuCullLoop(camera, objects, n - 1), camera, objects, n)

RECURSIVE Flatten(_, _)
Flatten(groups, n) ==
    IF n = 0 THEN <<>> ELSE Flatten(groups, n - 1) \o groups[n].members

\* the draw-call list: one entry per group, each with the contiguous range
\* [start_idx, end_idx) it owns in the per-frame instance buffer
CpuDrawCalls(groups) ==
    [g \in 1..Len(groups) |->
        [mesh |-> groups[g].key[1],
         material |-> groups[g].key[2],
         start_idx |-> Len(Flatten(groups, g - 1)),
         end_idx |-> Len(Flatten(groups, g))]]

\* CpuCuller::cull(CpuCullerCullArgs {device, camera, interfaces, objects}):
\* it is handed no encoder; `id` names the fresh per-frame output binding
CpuCull(id, camera, objects) ==
    LET groups == CpuCullLoop(camera, objects, Len(objects))
    IN  [panicked |-> FALSE,
         appended |-> <<>>,
         set |-> <<[calls |-> [tag |-> "CPU", draws |-> CpuDrawCalls(groups)],
                    output_bg |-> [id |-> id,
                                   instances |-> Flatten(groups, Len(groups))]]>>]

(* -------------------------- device culler ------------------------------ *)

\* capacity of the pre-allocated indirect-argument buffer
Capacity == 2

\* (1) the frustum test, one flag per object
GpuFlags(camera, objects) ==
    [i \in 1..Len(objects) |-> IF Visible(camera, objects[i]) THEN 1 ELSE 0]

\* (2) compaction: a surviving object is scattered to the slot given by the
\* exclusive prefix sum of the flags
GpuCompact(flags) ==
    [k \in 1..SumTo(flags, Len(flags)) |->
        CHOOSE i \in 1..Len(flags) : flags[i] = 1 /\ SumTo(flags, i - 1) = k - 1]

\* the first survivor slot holding the same (mesh, material) pair as slot k
GpuLeader(objects, survivors, k) ==
    CHOOSE j \in 1..k :
        /\ Key(objects[survivors[j]]) = Key(objects[survivors[k]])
        /\ \A h \in 1..(j - 1) : Key(objects[survivors[h]]) # Key(objects[survivors[k]])

\* the instance slot of survivor k: behind every range whose leader comes
\* first, and behind the earlier survivors of its own range
GpuInstanceSlot(objects, survivors, k) ==
    LET lead(h) == GpuLeader(objects, survivors, h)
    IN  Cardinality({h \in 1..Len(survivors) :
            \/ lead(h) < lead(k)
            \/ lead(h) = lead(k) /\ h < k}) + 1

GpuInstances(objects, survivors) ==
    [s \in 1..Len(survivors) |->
        survivors[CHOOSE k \in 1..Len(survivors) :
                      GpuInstanceSlot(objects, survivors, k) = s]]

\* (3) the indirect draw arguments, one per result range
GpuIndirectArgs(objects, survivors) ==
    LET lead(h) == GpuLeader(objects, survivors, h)
        leaders == {lead(h) : h \in 1..Len(survivors)}
        nth(r) == CHOOSE l \in leaders : Cardinality({m \in leaders : m < l}) = r - 1
    IN  [r \in 1..Cardinality(leaders) |->
            [mesh |-> objects[survivors[nth(r)]].mesh,
             material |-> objects[survivors[nth(r)]].material,
             first_instance |->
                 Cardinality({h \in 1..Len(survivors) : lead(h) < nth(r)}),
             instance_count |->
                 Cardinality({h \in 1..Len(survivors) : lead(h) = nth(r)})]]

EncoderCmd(op, id) == [op |-> op, id |-> id]

\* GpuCuller::cull(GpuCullerCullArgs {device, encoder, interfaces, materials,
\* camera, objects}): more objects than the indirect-argument buffer holds is
\* fatal; else the three passes are appended to the encoder
GpuCull(id, camera, objects) ==
    IF Len(objects) > Capacity
    THEN [panicked |-> TRUE, appended |-> <<>>, set |-> <<>>]
    ELSE LET survivors == GpuCompact(GpuFlags(camera, objects))
         IN  [panicked |-> FALSE,
              appended |-> <<EncoderCmd("cull_visibility", id),
                             EncoderCmd("cull_compact", id),
                             EncoderCmd("cull_write_indirect", id)>>,
              set |-> <<[calls |-> [tag |-> "GPU",
                                    data |-> GpuIndirectArgs(objects, survivors)],
                         output_bg |-> [id |-> id,
                                        instances |-> GpuInstances(objects, survivors)]]>>]

(* ------------------- recording into a render pass ---------------------- *)

\* a command recorded into the render pass by `by` (prepass or draw)
Cmd(by, op, slot, kind, arg) ==
    [by |-> by, op |-> op, slot |-> slot, kind |-> kind, arg |-> arg]

SetBindGroup(by, slot, kind, arg) == Cmd(by, "set_bind_group", slot, kind, arg)

\* the sampler a material is read with (MaterialManager::cpu_get_data)
SampleTypeOf(material) == IF material = 1 THEN "Linear" ELSE "Nearest"

\* culling::cpu::run(rpass, draws, samplers, samplers_binding_index, materials,
\* material_binding_index), batch n: the sampler group is bound again when the
\* batch's sample type differs from the one in force, then the batch's material
\* data is bound and the batch is drawn
CpuRunBatch(by, draws, n, samplers_binding_index, material_binding_index) ==
    LET before == IF n = 1 THEN "Linear" ELSE SampleTypeOf(draws[n - 1].material)
        now == SampleTypeOf(draws[n].material)
    IN  (IF now # before
         THEN <<SetBindGroup(by, samplers_binding_index, "samplers", 0)>>
         ELSE <<>>)
        \o <<SetBindGroup(by, material_binding_index, "material_data", draws[n].material),
             Cmd(by, "draw_indexed", -1, "none", n)>>

RECURSIVE CpuRunTo(_, _, _, _, _)
CpuRunTo(by, draws, n, samplers_binding_index, material_binding_index) ==
    IF n = 0 THEN <<>>
    ELSE CpuRunTo(by, draws, n - 1, samplers_binding_index, material_binding_index)
         \o CpuRunBatch(by, draws, n, samplers_binding_index, material_binding_index)

CpuRun(by, draws, samplers_binding_index, material_binding_index) ==
    CpuRunTo(by, draws, Len(draws), samplers_binding_index, material_binding_index)

\* culling::gpu::run(rpass, data): one indirect multi-draw over the buffer
GpuRun(by, data) == <<Cmd(by, "multi_draw_indirect", -1, "none", Len(data))>>

\* ModeData::as_gpu: extracting the device variant of a host-tagged value panics
AsGpuPanics(mode_data) == mode_data = "CPU"

(* ----------------------------- OpaquePass ------------------------------ *)

\* OpaquePass::new
new(depth_pipeline, opaque_pipeline) ==
    [depth_pipeline |-> depth_pipeline, opaque_pipeline |-> opaque_pipeline]

\* mutants of cull_opaque
\* the match arms are swapped
cull_opaque_Swapped(args) ==
    IF args.culler = "CPU"
    THEN GpuCull(args.device, args.camera, args.objects)
    ELSE CpuCull(args.device, args.camera, args.objects)

\* the device culler records into a scratch encoder, not into args.encoder
cull_opaque_ScratchEncoder(args) ==
    IF args.culler = "CPU"
    THEN CpuCull(args.device, args.camera, args.objects)
    ELSE [GpuCull(args.device, args.camera, args.objects) EXCEPT !.appended = <<>>]

\* the device culler is handed the object slice without its last entry
cull_opaque_GpuDropsLast(args) ==
    IF args.culler = "CPU"
    THEN CpuCull(args.device, args.camera, args.objects)
    ELSE GpuCull(args.device, args.camera,
                 SubSeq(args.objects, 1, Len(args.objects) - 1))

\* the host culler is handed the object slice without its last entry
cull_opaque_CpuDropsLast(args) ==
    IF args.culler = "CPU"
    THEN CpuCull(args.device, args.camera,
                 SubSeq(args.objects, 1, Len(args.objects) - 1))
    ELSE GpuCull(args.device, args.camera, args.objects)

\* the set of the frame before is handed out again
cull_opaque_ReturnsCached(args) ==
    LET id == IF args.device > 1 THEN args.device - 1 ELSE args.device
    IN  IF args.culler = "CPU"
        THEN CpuCull(id, args.camera, args.objects)
        ELSE GpuCull(id, args.camera, args.objects)

\* the host culler too is handed the encoder and uploads through it
cull_opaque_CpuRecords(args) ==
    IF args.culler = "CPU"
    THEN [CpuCull(args.device, args.camera, args.objects)
            EXCEPT !.appended = <<EncoderCmd("copy_buffer", args.device)>>]
    ELSE GpuCull(args.device, args.camera, args.objects)

\* the device culler is handed no more objects than its buffer holds
cull_opaque_Truncates(args) ==
    IF args.culler = "CPU"
    THEN CpuCull(args.device, args.camera, args.objects)
    ELSE GpuCull(args.device, args.camera,
                 SubSeq(args.objects, 1,
                        IF Len(args.objects) > Capacity
                        THEN Capacity ELSE Len(args.objects)))

\* OpaquePass::cull_opaque: one match on the culler's tag; only the device
\* culler is handed the encoder.  args.device stands for the fresh output
\* binding the culler creates on the device.
cull_opaque(args) ==
    IF args.culler = "CPU"
    THEN CpuCull(args.device, args.camera, args.objects)
    ELSE GpuCull(args.device, args.camera, args.objects)

\* mutant of prepass: the host arm runs the draw-call list from its second entry
prepass_SkipsFirstBatch(self, args) ==
    LET set == args.culled_objects
        head == <<Cmd("prepass", "bind_meshes", -1, "none", 0),
                  Cmd("prepass", "set_pipeline", -1, "none", self.depth_pipeline),
                  SetBindGroup("prepass", 0, "samplers", 0),
                  SetBindGroup("prepass", 1, "output", set.output_bg.id)>>
    IN  IF set.calls.tag = "CPU"
        THEN [panicked |-> FALSE,
              cmds |-> head \o CpuRun("prepass",
                                      IF set.calls.draws = <<>> THEN <<>>
                                      ELSE Tail(set.calls.draws), 0, 2)]
        ELSE LET table == <<SetBindGroup("prepass", 2, "material_table", 0)>>
             IN  IF AsGpuPanics(args.texture_bg)
                 THEN [panicked |-> TRUE, cmds |-> head \o table]
                 ELSE [panicked |-> FALSE,
                       cmds |-> head \o table
                                \o <<SetBindGroup("prepass", 3, "texture_array", 0)>>
                                \o GpuRun("prepass", set.calls.data)]

\* mutant of prepass: the opaque pipeline is selected
prepass_SelectsOpaquePipeline(self, args) ==
    LET set == args.culled_objects
        head == <<Cmd("prepass", "bind_meshes", -1, "none", 0),
                  Cmd("prepass", "set_pipeline", -1, "none", self.opaque_pipeline),
                  SetBindGroup("prepass", 0, "samplers", 0),
                  SetBindGroup("prepass", 1, "output", set.output_bg.id)>>
    IN  IF set.calls.tag = "CPU"
        THEN [panicked |-> FALSE,
              cmds |-> head \o CpuRun("prepass", set.calls.draws, 0, 2)]
        ELSE LET table == <<SetBindGroup("prepass", 2, "material_table", 0)>>
             IN  IF AsGpuPanics(args.texture_bg)
                 THEN [panicked |-> TRUE, cmds |-> head \o table]
                 ELSE [panicked |-> FALSE,
                       cmds |-> head \o table
                                \o <<SetBindGroup("prepass", 3, "texture_array", 0)>>
                                \o GpuRun("prepass", set.calls.data)]

\* mutant of prepass: the pipeline is selected after slots 0 and 1 are bound
prepass_PipelineAfterBinds(self, args) ==
    LET set == args.culled_objects
        head == <<Cmd("prepass", "bind_meshes", -1, "none", 0),
                  SetBindGroup("prepass", 0, "samplers", 0),
                  SetBindGroup("prepass", 1, "output", set.output_bg.id),
                  Cmd("prepass", "set_pipeline", -1, "none", self.depth_pipeline)>>
    IN  IF set.calls.tag = "CPU"
        THEN [panicked |-> FALSE,
              cmds |-> head \o CpuRun("prepass", set.calls.draws, 0, 2)]
        ELSE LET table == <<SetBindGroup("prepass", 2, "material_table", 0)>>
             IN  IF AsGpuPanics(args.texture_bg)
                 THEN [panicked |-> TRUE, cmds |-> head \o table]
                 ELSE [panicked |-> FALSE,
                       cmds |-> head \o table
                                \o <<SetBindGroup("prepass", 3, "texture_array", 0)>>
                                \o GpuRun("prepass", set.calls.data)]

\* OpaquePass::prepass: the commands recorded, and whether the call panicked
prepass(self, args) ==
    LET set == args.culled_objects
        head == <<Cmd("prepass", "bind_meshes", -1, "none", 0),
                  Cmd("prepass", "set_pipeline", -1, "none", self.depth_pipeline),
                  SetBindGroup("prepass", 0, "samplers", 0),
                  SetBindGroup("prepass", 1, "output", set.output_bg.id)>>
    IN  IF set.calls.tag = "CPU"
        THEN [panicked |-> FALSE,
              cmds |-> head \o CpuRun("prepass", set.calls.draws, 0, 2)]
        ELSE LET table == <<SetBindGroup("prepass", 2, "material_table", 0)>>
             IN  IF AsGpuPanics(args.texture_bg)
                 THEN [panicked |-> TRUE, cmds |-> head \o table]
                 ELSE [panicked |-> FALSE,
                       cmds |-> head \o table
                                \o <<SetBindGroup("prepass", 3, "texture_array", 0)>>
                                \o GpuRun("prepass", set.calls.data)]

\* mutant of draw: the host arm keeps prepass's material slot
draw_PrepassMaterialSlot(self, args) ==
    LET set == args.culled_objects
        head == <<Cmd("draw", "bind_meshes", -1, "none", 0),
                  Cmd("draw", "set_pipeline", -1, "none", self.opaque_pipeline),
                  SetBindGroup("draw", 0, "samplers", 0),
                  SetBindGroup("draw", 1, "output", set.output_bg.id),
                  SetBindGroup("draw", 2, "directional_light", 0),
                  SetBindGroup("draw", 3, "shader_uniforms", 0)>>
    IN  IF set.calls.tag = "CPU"
        THEN [panicked |-> FALSE,
              cmds |-> head \o CpuRun("draw", set.calls.draws, 0, 2)]
        ELSE LET table == <<SetBindGroup("draw", 4, "material_table", 0)>>
             IN  IF AsGpuPanics(args.texture_bg)
                 THEN [panicked |-> TRUE, cmds |-> head \o table]
                 ELSE [panicked |-> FALSE,
                       cmds |-> head \o table
                                \o <<SetBindGroup("draw", 5, "texture_array", 0)>>
                                \o GpuRun("draw", set.calls.data)]

\* mutant of draw: the device arm binds the texture array at the material
\* table's slot
draw_TextureSlotTypo(self, args) ==
    LET set == args.culled_objects
        head == <<Cmd("draw", "bind_meshes", -1, "none", 0),
                  Cmd("draw", "set_pipeline", -1, "none", self.opaque_pipeline),
                  SetBindGroup("draw", 0, "samplers", 0),
                  SetBindGroup("draw", 1, "output", set.output_bg.id),
                  SetBindGroup("draw", 2, "directional_light", 0),
                  SetBindGroup("draw", 3, "shader_uniforms", 0)>>
    IN  IF set.calls.tag = "CPU"
        THEN [panicked |-> FALSE,
              cmds |-> head \o CpuRun("draw", set.calls.draws, 0, 4)]
        ELSE LET table == <<SetBindGroup("draw", 4, "material_table", 0)>>
             IN  IF AsGpuPanics(args.texture_bg)
                 THEN [panicked |-> TRUE, cmds |-> head \o table]
                 ELSE [panicked |-> FALSE,
                       cmds |-> head \o table
                                \o <<SetBindGroup("draw", 4, "texture_array", 0)>>
                                \o GpuRun("draw", set.calls.data)]

\* mutant of draw: the host arm runs the draw-call list without its last entry
draw_DropsLastBatch(self, args) ==
    LET set == args.culled_objects
        head == <<Cmd("draw", "bind_meshes", -1, "none", 0),
                  Cmd("draw", "set_pipeline", -1, "none", self.opaque_pipeline),
                  SetBindGroup("draw", 0, "samplers", 0),
                  SetBindGroup("draw", 1, "output", set.output_bg.id),
                  SetBindGroup("draw", 2, "directional_light", 0),
                  SetBindGroup("draw", 3, "shader_uniforms", 0)>>
    IN  IF set.calls.tag = "CPU"
        THEN [panicked |-> FALSE,
              cmds |-> head \o CpuRun("draw",
                                      SubSeq(set.calls.draws, 1,
                                             Len(set.calls.draws) - 1), 0, 4)]
        ELSE LET table == <<SetBindGroup("draw", 4, "material_table", 0)>>
             IN  IF AsGpuPanics(args.texture_bg)
                 THEN [panicked |-> TRUE, cmds |-> head \o table]
                 ELSE [panicked |-> FALSE,
                       cmds |-> head \o table
                                \o <<SetBindGroup("draw", 5, "texture_array", 0)>>
                                \o GpuRun("draw", set.calls.data)]

\* OpaquePass::draw
draw(self, args) ==
    LET set == args.culled_objects
        head == <<Cmd("draw", "bind_meshes", -1, "none", 0),
                  Cmd("draw", "set_pipeline", -1, "none", self.opaque_pipeline),
                  SetBindGroup("draw", 0, "samplers", 0),
                  SetBindGroup("draw", 1, "output", set.output_bg.id),
                  SetBindGroup("draw", 2, "directional_light", 0),
                  SetBindGroup("draw", 3, "shader_uniforms", 0)>>
    IN  IF set.calls.tag = "CPU"
        THEN [panicked |-> FALSE,
              cmds |-> head \o CpuRun("draw", set.calls.draws, 0, 4)]
        ELSE LET table == <<SetBindGroup("draw", 4, "material_table", 0)>>
             IN  IF AsGpuPanics(args.texture_bg)
                 THEN [panicked |-> TRUE, cmds |-> head \o table]
                 ELSE [panicked |-> FALSE,
                       cmds |-> head \o table
                                \o <<SetBindGroup("draw", 5, "texture_array", 0)>>
                                \o GpuRun("draw", set.calls.data)]

(* --------------------------- the frame loop ---------------------------- *)

\* the frame's command stream: the render pass is begun on the frame's encoder
\* once culling is done, so what it records follows what the encoder holds.
\* `writes` names the culled set a culling command fills, `reads` the culled
\* set whose output a render-pass command binds (0: none).
StreamOf(enc, pass) ==
    [k \in 1..(Len(enc) + Len(pass)) |->
        IF k <= Len(enc)
        THEN [op |-> enc[k].op, writes |-> enc[k].id, reads |-> 0]
        ELSE [op |-> pass[k - Len(enc)].op, writes |-> 0,
              reads |-> IF pass[k - Len(enc)].kind = "output"
                        THEN pass[k - Len(enc)].arg ELSE 0]]

\* what the frame's encoder may already hold when it is handed to the pass
EarlierCommands == {<<>>, <<EncoderCmd("copy_buffer", 0)>>}

VARIABLES
    self,       \* the OpaquePass: its two pipeline handles
    frame,      \* number of the frame being recorded
    pc,         \* phase of the frame: cull, prepass, draw, end, panicked
    encoder,    \* commands appended to the frame's CommandEncoder
    rpass,      \* commands recorded into the frame's RenderPass
    culled,     \* the frame's CulledObjectSet: <<>> or <<set>>
    calls,      \* the calls made on the pass in this frame, with their arguments
    strategy,   \* tag of the culler of the first cull_opaque call made on the
                \* pass ("none" before it)
    \* the animation example (examples/animation/src/lib.rs)
    data,       \* AnimationExample::data, one InitializedData per loaded scene
    clock,      \* the latest reading of the monotonic clock (Instant::now)
    app,        \* new (constructed), running (set up), exiting (loop told to exit)
    event,      \* the last event handled ("none" before the first)
    cleared,    \* the clock reading of the last MainEventsCleared (-1: none yet)
    redraw      \* whether a redraw has been requested of the window

passVars == <<self, frame, pc, encoder, rpass, culled, calls, strategy>>
animVars == <<data, clock, app, event, cleared, redraw>>
vars == <<passVars, animVars>>

\* AnimationExample::default(), before the framework has called setup
AnimNew ==
    /\ data = <<>>
    /\ clock = 0
    /\ app = "new"
    /\ event = "none"
    /\ cleared = -1
    /\ redraw = FALSE

\* after OpaquePass::new(depth_pipeline, opaque_pipeline), the two handles
\* naming two different compiled pipelines
Init ==
    /\ \E d \in Pipelines : \E o \in Pipelines \ {d} : self = new(d, o)
    /\ frame = 1
    /\ pc = "cull"
    /\ encoder \in EarlierCommands
    /\ rpass = <<>>
    /\ culled = <<>>
    /\ calls = <<>>
    /\ strategy = "none"
    /\ AnimNew

\* the frame's culling step
CullOpaque ==
    /\ pc = "cull"
    /\ \E culler \in Tags, camera \in Cameras, objects \in ObjectLists :
          LET args == [device |-> frame, culler |-> culler,
                       camera |-> camera, objects |-> objects]
              r == cull_opaque(args)
          IN  /\ encoder' = encoder \o r.appended
              /\ culled' = r.set
              /\ pc' = IF r.panicked THEN "panicked" ELSE "prepass"
              /\ calls' = Append(calls, [fn |-> "cull_opaque", args |-> args,
                                         panicked |-> r.panicked,
                                         from |-> Len(encoder)])
              /\ strategy' = IF strategy = "none" THEN culler ELSE strategy
    /\ UNCHANGED <<self, frame, rpass, animVars>>

\* the depth prepass over the frame's culled set
Prepass ==
    /\ pc = "prepass"
    /\ Len(culled) = 1
    /\ \E texture_bg \in Tags :
          LET args == [texture_bg |-> texture_bg, culled_objects |-> culled[1]]
              r == prepass(self, args)
          IN  /\ rpass' = rpass \o r.cmds
              /\ pc' = IF r.panicked THEN "panicked" ELSE "draw"
              /\ calls' = Append(calls, [fn |-> "prepass", args |-> args,
                                         panicked |-> r.panicked,
                                         from |-> Len(rpass)])
    /\ UNCHANGED <<self, frame, encoder, culled, strategy, animVars>>

\* the opaque pass over the same culled set
Draw ==
    /\ pc = "draw"
    /\ Len(culled) = 1
    /\ \E texture_bg \in Tags :
          LET args == [texture_bg |-> texture_bg, culled_objects |-> culled[1]]
              r == draw(self, args)
          IN  /\ rpass' = rpass \o r.cmds
              /\ pc' = IF r.panicked THEN "panicked" ELSE "end"
              /\ calls' = Append(calls, [fn |-> "draw", args |-> args,
                                         panicked |-> r.panicked,
                                         from |-> Len(rpass)])
    /\ UNCHANGED <<self, frame, encoder, culled, strategy, animVars>>

\* the frame ends: its encoder is submitted and its culled set discarded
EndFrame ==
    /\ pc = "end"
    /\ frame < MaxFrames
    /\ frame' = frame + 1
    /\ pc' = "cull"
    /\ encoder' \in EarlierCommands
    /\ rpass' = <<>>
    /\ culled' = <<>>
    /\ calls' = <<>>
    /\ UNCHANGED <<self, strategy, animVars>>

\* a fatal error abandons the whole frame
AbandonFrame ==
    /\ pc = "panicked"
    /\ frame < MaxFrames
    /\ frame' = frame + 1
    /\ pc' = "cull"
    /\ encoder' \in EarlierCommands
    /\ rpass' = <<>>
    /\ culled' = <<>>
    /\ calls' = <<>>
    /\ UNCHANGED <<self, strategy, animVars>>

Next == CullOpaque \/ Prepass \/ Draw \/ EndFrame \/ AbandonFrame

Spec == Init /\ [][Next]_vars

(* ------------------------ the animation example ------------------------ *)

\* durations of animation 0 of the scenes that can be loaded, in clock ticks
Durations == {2, 3}

\* mutant of update: the time is advanced without wrapping
update_NoWrap(delta, init_data) ==
    [init_data EXCEPT !.animation_time = init_data.animation_time + delta]

\* update(renderer, delta, init_data): the animation time advances by delta,
\* wrapped at the duration of the scene's animation 0 (posing the frame acts
\* on the renderer only)
update(delta, init_data) ==
    [init_data EXCEPT
        !.animation_time = (init_data.animation_time + delta) % init_data.duration]

\* the closure run on every entry at MainEventsCleared
Advance(now, init_data) ==
    LET delta == now - init_data.last_frame_time
    IN  update(delta, [init_data EXCEPT !.last_frame_time = now])

\* App::setup: two scenes are loaded one after the other, each entry taking
\* the clock reading of the moment it is built
Setup ==
    /\ app = "new"
    /\ \E d1 \in Durations, d2 \in Durations :
       \E t1 \in clock..MaxClock :
       \E t2 \in t1..MaxClock :
          /\ data' = <<[duration |-> d1, animation_time |-> 0, last_frame_time |-> t1],
                       [duration |-> d2, animation_time |-> 0, last_frame_time |-> t2]>>
          /\ clock' = t2
    /\ app' = "running"
    /\ UNCHANGED <<event, cleared, redraw, passVars>>

\* handle_event, Event::MainEventsCleared: one clock reading for all entries
MainEventsCleared ==
    /\ app = "running"
    /\ \E now \in clock..MaxClock :
          /\ data' = [i \in 1..Len(data) |-> Advance(now, data[i])]
          /\ clock' = now
          /\ cleared' = now
    /\ event' = "MainEventsCleared"
    /\ redraw' = TRUE
    /\ UNCHANGED <<app, passVars>>

\* handle_event, WindowEvent::CloseRequested: the event loop is told to exit
CloseRequested ==
    /\ app = "running"
    /\ app' = "exiting"
    /\ event' = "CloseRequested"
    /\ UNCHANGED <<data, clock, cleared, redraw, passVars>>

\* handle_event, Event::RedrawRequested: a frame is rendered from the
\* renderer's state; the example's own data is only read
RedrawRequested ==
    /\ app = "running"
    /\ event' = "RedrawRequested"
    /\ redraw' = FALSE
    /\ UNCHANGED <<data, clock, app, cleared, passVars>>

\* the pass is not driven while the example's events are followed
PassIdle ==
    /\ self = new(1, 2)
    /\ frame = 1
    /\ pc = "cull"
    /\ encoder = <<>>
    /\ rpass = <<>>
    /\ culled = <<>>
    /\ calls = <<>>
    /\ strategy = "none"

InitAnim == PassIdle /\ AnimNew

NextAnim == Setup \/ MainEventsCleared \/ CloseRequested \/ RedrawRequested

SpecAnim == InitAnim /\ [][NextAnim]_vars

(* ------------------------- reading the state --------------------------- *)

IsBind(c) == c.op = "set_bind_group"
IsDraw(c) == c.op \in {"draw_indexed", "multi_draw_indirect"}

\* the commands the n-th call of this frame recorded into the render pass
Recorded(n) ==
    SubSeq(rpass, calls[n].from + 1,
           IF n < Len(calls) /\ calls[n + 1].fn # "cull_opaque"
           THEN calls[n + 1].from ELSE Len(rpass))

PassCalls == {n \in 1..Len(calls) : calls[n].fn \in {"prepass", "draw"}}

Count(seq, Test(_)) == Cardinality({i \in 1..Len(seq) : Test(seq[i])})

(* ------------------------------- C1 ------------------------------------ *)

\* the bind-group layout of the two pipelines
SlotLayout(by, kind) ==
    IF by = "prepass"
    THEN CASE kind = "samplers" -> 0
           [] kind = "output" -> 1
           [] kind \in {"material_data", "material_table"} -> 2
           [] kind = "texture_array" -> 3
           [] OTHER -> -1
    ELSE CASE kind = "samplers" -> 0
           [] kind = "output" -> 1
           [] kind = "directional_light" -> 2
           [] kind = "shader_uniforms" -> 3
           [] kind \in {"material_data", "material_table"} -> 4
           [] kind = "texture_array" -> 5
           [] OTHER -> -1

\* C1: in every frame and for every culled set, each bind recorded by prepass
\* and by draw puts its kind of resource at the one slot the pass's layout
\* gives that kind, whatever the frame, the batch or the number of objects.
C1_SlotLayoutStable ==
    \A i \in 1..Len(rpass) :
        IsBind(rpass[i]) =>
            /\ rpass[i].slot = SlotLayout(rpass[i].by, rpass[i].kind)
            /\ rpass[i].slot >= 0

\* a second frame whose host set of two batches has been through both passes
C1_Witness ==
    /\ frame = 2
    /\ pc = "end"
    /\ culled[1].calls.tag = "CPU"
    /\ Len(culled[1].calls.draws) = 2
    /\ \E i \in 1..Len(rpass) : rpass[i].by = "draw" /\ rpass[i].kind = "material_data"

(* ------------------------------- C2 ------------------------------------ *)

\* C2: every prepass or draw call whose culled set and texture_bg carry
\* different strategy tags panics and records no draw command.
C2_MismatchAlwaysPanics ==
    \A n \in PassCalls :
        calls[n].args.texture_bg # calls[n].args.culled_objects.calls.tag =>
            /\ calls[n].panicked
            /\ Count(Recorded(n), IsDraw) = 0

(* ------------------------------- C3 ------------------------------------ *)

\* C3: a set returned by cull_opaque holds exactly one of the host draw-call
\* list and the device indirect-draw data, and carries the tag of the culler
\* the call was given.
C3_SetTaggedByCuller ==
    Len(culled) = 1 =>
        /\ calls[1].fn = "cull_opaque"
        /\ culled[1].calls.tag = calls[1].args.culler
        /\ ("draws" \in DOMAIN culled[1].calls) # ("data" \in DOMAIN culled[1].calls)
        /\ ("draws" \in DOMAIN culled[1].calls) = (calls[1].args.culler = "CPU")

\* the device culler has returned a set for a list of two objects
C3_Witness ==
    /\ Len(culled) = 1
    /\ calls[1].args.culler = "GPU"
    /\ Len(calls[1].args.objects) = 2
    /\ culled[1].calls.tag = "GPU"

(* ------------------------------- C4 ------------------------------------ *)

CullOps == {"cull_visibility", "cull_compact", "cull_write_indirect"}

\* C4: in a frame under the device strategy, every command of prepass or draw
\* that reads the culled set's output comes later in the frame's command stream
\* than every culling command of the frame, all three of which are in the
\* stream; and every prepass or draw call follows the cull_opaque call that
\* returned the set it is given.
C4_CullBeforePasses ==
    LET stream == StreamOf(encoder, rpass)
    IN  /\ Len(calls) = 1 => culled = cull_opaque(calls[1].args).set
        /\ \A n \in PassCalls :
               \E m \in 1..(n - 1) :
                   /\ calls[m].fn = "cull_opaque"
                   /\ ~calls[m].panicked
                   /\ culled = <<calls[n].args.culled_objects>>
        /\ \A j \in 1..Len(stream) :
               (stream[j].reads # 0 /\ Len(culled) = 1 /\ culled[1].calls.tag = "GPU") =>
                   /\ \A op \in CullOps :
                          \E k \in 1..(j - 1) :
                              stream[k].op = op /\ stream[k].writes = stream[j].reads
                   /\ \A k \in 1..Len(stream) : stream[k].writes # 0 => k < j

\* a device frame with earlier commands in its encoder, both passes recorded
C4_Witness ==
    /\ pc = "end"
    /\ culled[1].calls.tag = "GPU"
    /\ Len(encoder) = 4
    /\ \E i \in 1..Len(rpass) : rpass[i].by = "draw" /\ rpass[i].kind = "output"

(* ------------------------------- C5 ------------------------------------ *)

IsDrawIndexed(c) == c.op = "draw_indexed"
IsMultiDraw(c) == c.op = "multi_draw_indirect"
IsMaterialTable(c) == c.kind = "material_table"
IsTextureArray(c) == c.kind = "texture_array"

\* C5: a prepass call that returns has recorded, for a host set of n batches,
\* exactly n draw calls, the k-th drawing batch k right after binding batch k's
\* material data, and no indirect draw; for a device set, one bind of the
\* material table, one bind of the texture array and one indirect multi-draw.
C5_PrepassDraws ==
    \A n \in PassCalls :
        (calls[n].fn = "prepass" /\ ~calls[n].panicked) =>
            LET rec == Recorded(n)
                set == calls[n].args.culled_objects
                drawn == {i \in 1..Len(rec) : IsDrawIndexed(rec[i])}
            IN  IF set.calls.tag = "CPU"
                THEN /\ Cardinality(drawn) = Len(set.calls.draws)
                     /\ Count(rec, IsMultiDraw) = 0
                     /\ \A i \in drawn :
                            /\ rec[i].arg = Cardinality({h \in drawn : h <= i})
                            /\ rec[i - 1].kind = "material_data"
                            /\ rec[i - 1].arg = set.calls.draws[rec[i].arg].material
                ELSE /\ Count(rec, IsMaterialTable) = 1
                     /\ Count(rec, IsTextureArray) = 1
                     /\ Count(rec, IsMultiDraw) = 1
                     /\ Count(rec, IsDrawIndexed) = 0

\* prepass has returned for a host set of two batches
C5_Witness ==
    /\ pc = "draw"
    /\ culled[1].calls.tag = "CPU"
    /\ Len(culled[1].calls.draws) = 2
    /\ Count(rpass, IsDrawIndexed) = 2

(* --------------------------- C6, C7, C8 -------------------------------- *)

\* the frame's cull_opaque call has just ended
Culled == Len(calls) = 1 /\ calls[1].fn = "cull_opaque"

CullWith(culler) == cull_opaque([calls[1].args EXCEPT !.culler = culler])

\* the objects of a returned set, by their index in the object list
Survivors(r) == SeqToSet(r.set[1].output_bg.instances)

VisibleObjects ==
    {i \in 1..Len(calls[1].args.objects) :
        Visible(calls[1].args.camera, calls[1].args.objects[i])}

\* C6: on the camera and object list of any cull_opaque call, the host culler
\* and the device culler keep the same objects, compared by index in the list,
\* whenever both return a set (a device call over more objects than the
\* indirect-argument buffer holds returns none).
C6_SameSurvivors ==
    Culled =>
        LET cpu == CullWith("CPU")
            gpu == CullWith("GPU")
        IN  (~cpu.panicked /\ ~gpu.panicked) => Survivors(cpu) = Survivors(gpu)

\* the device culler has returned a set that keeps one of two objects
C6_Witness ==
    /\ Culled
    /\ calls[1].args.culler = "GPU"
    /\ Len(culled) = 1
    /\ Len(calls[1].args.objects) = 2
    /\ Cardinality(Survivors(CullWith("CPU"))) = 1
    /\ SeqToSet(culled[1].output_bg.instances) = Survivors(CullWith("CPU"))

\* the instance-buffer slots of batch b
Range(b) == (b.start_idx + 1)..b.end_idx

\* the batches whose instance range holds object i
BatchesOf(set, i) ==
    {b \in 1..Len(set.calls.draws) :
        \E k \in Range(set.calls.draws[b]) : set.output_bg.instances[k] = i}

HostCulled == Culled /\ calls[1].args.culler = "CPU" /\ ~calls[1].panicked

\* C7: for a host cull_opaque call, the instance counts of the returned batches
\* add up to the number of objects passing the frustum test, every such object
\* is in exactly one batch's range and at exactly one slot of it, no object
\* failing the test is in any range, and there are no more batches than objects.
C7_BatchesComplete ==
    HostCulled =>
        LET set == culled[1]
            draws == set.calls.draws
            objects == calls[1].args.objects
        IN  /\ set.calls.tag = "CPU"
            /\ SumTo([b \in 1..Len(draws) |-> draws[b].end_idx - draws[b].start_idx],
                     Len(draws)) = Cardinality(VisibleObjects)
            /\ \A b \in 1..Len(draws) :
                   /\ draws[b].start_idx <= draws[b].end_idx
                   /\ draws[b].end_idx <= Len(set.output_bg.instances)
            /\ \A i \in VisibleObjects :
                   /\ Cardinality(BatchesOf(set, i)) = 1
                   /\ Cardinality({k \in 1..Len(set.output_bg.instances) :
                                      set.output_bg.instances[k] = i}) = 1
            /\ \A i \in (1..Len(objects)) \ VisibleObjects : BatchesOf(set, i) = {}
            /\ Len(draws) <= Len(objects)

\* a host set of two batches over three objects, one of them culled
C7_Witness ==
    /\ HostCulled
    /\ Len(calls[1].args.objects) = 3
    /\ Len(culled[1].calls.draws) = 2
    /\ Cardinality(VisibleObjects) = 2

ExampleObjects ==
    <<[mesh |-> 1, material |-> 1, pos |-> 1],
      [mesh |-> 1, material |-> 1, pos |-> 1],
      [mesh |-> 2, material |-> 2, pos |-> 0]>>

\* C8: for a host cull_opaque call, two surviving objects with the same mesh
\* and the same material are in the same batch, and no two batches have the
\* same (mesh, material) pair; two visible objects of (mesh 1, material 1) and
\* an invisible one of (mesh 2, material 2) give one batch of two instances.
C8_GroupedByMeshMaterial ==
    HostCulled =>
        LET set == culled[1]
            draws == set.calls.draws
            objects == calls[1].args.objects
        IN  /\ set.calls.tag = "CPU"
            /\ \A i, j \in VisibleObjects :
                   Key(objects[i]) = Key(objects[j]) =>
                       \E b \in 1..Len(draws) :
                           /\ b \in BatchesOf(set, i)
                           /\ b \in BatchesOf(set, j)
                           /\ <<draws[b].mesh, draws[b].material>> = Key(objects[i])
            /\ \A a, b \in 1..Len(draws) :
                   (draws[a].mesh = draws[b].mesh /\ draws[a].material = draws[b].material)
                       => a = b
            /\ (objects = ExampleObjects /\ calls[1].args.camera = 1) =>
                   /\ Len(draws) = 1
                   /\ draws[1].mesh = 1 /\ draws[1].material = 1
                   /\ draws[1].end_idx - draws[1].start_idx = 2
                   /\ BatchesOf(set, 3) = {}

\* the host culler has returned the set of the example scene
C8_Witness ==
    /\ HostCulled
    /\ calls[1].args.objects = ExampleObjects
    /\ calls[1].args.camera = 1
    /\ Len(culled[1].calls.draws) = 1

(* ------------------------------- C9 ------------------------------------ *)

\* C9: in every frame, the culled set handed to prepass and to draw is the one
\* this frame's cull_opaque call returned, with the output binding created in
\* this frame; no bind of a render pass names the output of an earlier frame.
C9_SetOfThisFrame ==
    /\ Culled => (calls[1].args.device = frame /\ culled = cull_opaque(calls[1].args).set)
    /\ \A n \in PassCalls :
           /\ calls[1].fn = "cull_opaque"
           /\ calls[1].args.device = frame
           /\ <<calls[n].args.culled_objects>> = culled
           /\ calls[n].args.culled_objects.output_bg.id = frame
    /\ \A i \in 1..Len(rpass) : rpass[i].kind = "output" => rpass[i].arg = frame

\* the second frame's set has been through prepass and draw
C9_Witness ==
    /\ frame = 2
    /\ Len(calls) = 3
    /\ calls[3].fn = "draw"
    /\ calls[3].args.culled_objects.output_bg.id = 2

(* ------------------------------- C10 ----------------------------------- *)

\* C10: a cull_opaque call with the host culler leaves the encoder as it was;
\* one with the device culler leaves everything the encoder held in place, in
\* order, and at most adds commands behind it.
C10_CullOnlyAppends ==
    [][(Len(calls') = Len(calls) + 1 /\ calls'[Len(calls')].fn = "cull_opaque") =>
          /\ Len(encoder') >= Len(encoder)
          /\ SubSeq(encoder', 1, Len(encoder)) = encoder
          /\ calls'[Len(calls')].args.culler = "CPU" => encoder' = encoder]_vars

\* the device culler has appended its commands behind an earlier one
C10_Witness ==
    /\ Len(calls) = 1
    /\ calls[1].args.culler = "GPU"
    /\ Len(encoder) = 4
    /\ encoder[1].op = "copy_buffer"
    /\ encoder[4].op = "cull_write_indirect"

(* ------------------------------- C11 ----------------------------------- *)

\* the strategy call n runs under: the culler's tag for cull_opaque, the tag of
\* the culled set (the arm taken) for prepass and draw
StrategyOf(n) ==
    IF calls[n].fn = "cull_opaque"
    THEN calls[n].args.culler
    ELSE calls[n].args.culled_objects.calls.tag

\* C11: over the lifetime of the pass every cull_opaque, prepass and draw call
\* that is accepted (returns without a panic) runs under the strategy of the
\* first call made on the pass.
C11_OneStrategyForLife ==
    \A n \in 1..Len(calls) : ~calls[n].panicked => StrategyOf(n) = strategy

(* ------------------------------- C12 ----------------------------------- *)

\* C12: a cull_opaque call with the device culler over more objects than the
\* indirect-argument buffer holds ends in the fatal error and returns no
\* culled set, in particular none over the first Capacity objects.
C12_OverCapacityIsFatal ==
    (Culled /\ calls[1].args.culler = "GPU" /\ Len(calls[1].args.objects) > Capacity) =>
        /\ calls[1].panicked
        /\ pc = "panicked"
        /\ culled = <<>>

\* the device culler was called with one object more than the buffer holds
C12_Witness ==
    /\ Culled
    /\ calls[1].args.culler = "GPU"
    /\ Len(calls[1].args.objects) = Capacity + 1
    /\ pc = "panicked"

(* ------------------------------- C13 ----------------------------------- *)

StrategyKinds == {"material_data", "material_table", "texture_array"}

Binds == {i \in 1..Len(rpass) : IsBind(rpass[i])}

\* C13: prepass binds only slots 0..3 and draw only slots 0..5; in both passes
\* slot 0 is bound to the sampler group and to nothing else, slot 1 to the
\* culled set's output and to nothing else; and material data, the material
\* table and the texture array are each bound by draw two slots above where
\* prepass binds them.
C13_SlotRangesAndOffset ==
    /\ \A i \in Binds :
           /\ rpass[i].by = "prepass" => rpass[i].slot \in 0..3
           /\ rpass[i].by = "draw" => rpass[i].slot \in 0..5
           /\ (rpass[i].slot = 0) = (rpass[i].kind = "samplers")
           /\ (rpass[i].slot = 1) = (rpass[i].kind = "output")
    /\ \A i, j \in Binds :
           (/\ rpass[i].by = "prepass"
            /\ rpass[j].by = "draw"
            /\ rpass[i].kind = rpass[j].kind
            /\ rpass[i].kind \in StrategyKinds) => rpass[j].slot = rpass[i].slot + 2

\* both passes have bound the material table and the texture array of a
\* device set
C13_Witness ==
    /\ pc = "end"
    /\ culled[1].calls.tag = "GPU"
    /\ \E i, j \in Binds :
           /\ rpass[i].by = "prepass" /\ rpass[i].kind = "texture_array"
           /\ rpass[j].by = "draw" /\ rpass[j].kind = "texture_array"

(* ------------------------------- C14 ----------------------------------- *)

\* C14: every prepass call, also one that panics, records first the mesh
\* buffers, second the pipeline, third the sampler group at slot 0, fourth the
\* culled set's output at slot 1; every bind of material data, material table
\* or texture array and every draw or indirect multi-draw comes after these.
C14_PrepassOrder ==
    \A n \in PassCalls :
        calls[n].fn = "prepass" =>
            LET rec == Recorded(n)
            IN  /\ Len(rec) >= 4
                /\ rec[1].op = "bind_meshes"
                /\ rec[2].op = "set_pipeline"
                /\ IsBind(rec[3]) /\ rec[3].slot = 0 /\ rec[3].kind = "samplers"
                /\ IsBind(rec[4]) /\ rec[4].slot = 1 /\ rec[4].kind = "output"
                /\ \A i \in 1..Len(rec) :
                       (IsDraw(rec[i]) \/ rec[i].kind \in StrategyKinds) => i > 4

\* a prepass over a device set has ended with its indirect multi-draw
C14_Witness ==
    /\ Len(calls) = 2
    /\ calls[2].fn = "prepass"
    /\ Len(rpass) = 7
    /\ rpass[5].kind = "material_table"
    /\ rpass[7].op = "multi_draw_indirect"

(* ------------------------------- C15 ----------------------------------- *)

\* a command of prepass as draw would record it: the opaque pipeline for the
\* depth pipeline, strategy-specific binds two slots up
AsDrawCmd(c) ==
    [by |-> "draw",
     op |-> c.op,
     slot |-> IF c.kind \in StrategyKinds THEN c.slot + 2 ELSE c.slot,
     kind |-> c.kind,
     arg |-> IF c.op = "set_pipeline" THEN self.opaque_pipeline ELSE c.arg]

\* what prepass recorded, as draw would record it: the two extra binds follow
\* the first four commands
AsDraw(rec) ==
    [i \in 1..(Len(rec) + 2) |->
        IF i <= 4 THEN AsDrawCmd(rec[i])
        ELSE IF i = 5 THEN SetBindGroup("draw", 2, "directional_light", 0)
        ELSE IF i = 6 THEN SetBindGroup("draw", 3, "shader_uniforms", 0)
        ELSE AsDrawCmd(rec[i - 2])]

DrawsOf(rec) == SelectSeq(rec, IsDraw)

\* C15: the culled set is after every prepass and draw call what the call was
\* handed; and when both calls of a frame have returned, draw has recorded the
\* same draw calls in the same order as prepass (or the same one indirect
\* multi-draw), and what it recorded is what prepass recorded but for the
\* pipeline, the binds of directional light at slot 2 and shader uniforms at
\* slot 3, and the strategy-specific binds sitting two slots higher.
C15_DrawMirrorsPrepass ==
    /\ \A n \in PassCalls : culled = <<calls[n].args.culled_objects>>
    /\ (/\ Len(calls) = 3
        /\ calls[2].fn = "prepass" /\ ~calls[2].panicked
        /\ calls[3].fn = "draw" /\ ~calls[3].panicked) =>
           /\ Len(DrawsOf(Recorded(3))) = Len(DrawsOf(Recorded(2)))
           /\ \A k \in 1..Len(DrawsOf(Recorded(2))) :
                  /\ DrawsOf(Recorded(3))[k].op = DrawsOf(Recorded(2))[k].op
                  /\ DrawsOf(Recorded(3))[k].arg = DrawsOf(Recorded(2))[k].arg
           /\ Recorded(3) = AsDraw(Recorded(2))

\* both passes have drawn the two batches of a host set
C15_Witness ==
    /\ Len(calls) = 3
    /\ ~calls[3].panicked
    /\ culled[1].calls.tag = "CPU"
    /\ Len(culled[1].calls.draws) = 2
    /\ Len(DrawsOf(Recorded(2))) = 2
    /\ Len(DrawsOf(Recorded(3))) = 2

(* ------------------------------- C16 ----------------------------------- *)

IsSetPipeline(c) == c.op = "set_pipeline"

\* every prepass call so far selected the depth pipeline once and nothing
\* else, every draw call the opaque pipeline once and nothing else
PipelinesSelected ==
    \A n \in PassCalls :
        LET rec == Recorded(n)
            want == IF calls[n].fn = "prepass"
                    THEN self.depth_pipeline ELSE self.opaque_pipeline
        IN  /\ Count(rec, IsSetPipeline) = 1
            /\ \A i \in 1..Len(rec) : IsSetPipeline(rec[i]) => rec[i].arg = want

\* C16: no step of the pass (cull_opaque, prepass, draw, or a frame's end)
\* changes the two pipeline handles it was constructed with, which are all the
\* state it holds; and after every step each prepass call has selected the
\* depth pipeline, each draw call the opaque pipeline, exactly once.
C16_PipelinesKept ==
    [][/\ self' = self
       /\ DOMAIN self' = {"depth_pipeline", "opaque_pipeline"}
       /\ PipelinesSelected']_vars

\* in the second frame both passes have selected their pipelines
C16_Witness ==
    /\ frame = 2
    /\ Len(calls) = 3
    /\ self = new(2, 1)
    /\ \E i, j \in 1..Len(rpass) :
           /\ rpass[i].by = "prepass" /\ IsSetPipeline(rpass[i]) /\ rpass[i].arg = 2
           /\ rpass[j].by = "draw" /\ IsSetPipeline(rpass[j]) /\ rpass[j].arg = 1

(* ------------------------------- C17 ----------------------------------- *)

\* the kind of resource slot holds when command i of rec runs: that of the
\* last bind of the slot before it
BoundAt(rec, i, slot) ==
    LET before == {j \in 1..(i - 1) : IsBind(rec[j]) /\ rec[j].slot = slot}
    IN  IF before = {} THEN "none"
        ELSE rec[CHOOSE j \in before : \A h \in before : h <= j].kind

\* C17: in a prepass or draw call over a host set, the binds recorded after
\* the pass's own (four in prepass, six in draw) go to slot 0 or to the
\* material slot (2 in prepass, 4 in draw) only; so at every draw call of a
\* batch slot 1 holds the culled set's output and, in draw, slot 2 the
\* directional light and slot 3 the shader uniforms.
C17_HostRunKeepsBindings ==
    \A n \in PassCalls :
        calls[n].args.culled_objects.calls.tag = "CPU" =>
            LET rec == Recorded(n)
                isDraw == calls[n].fn = "draw"
                own == IF isDraw THEN 6 ELSE 4
                material == IF isDraw THEN 4 ELSE 2
            IN  /\ \A i \in (own + 1)..Len(rec) :
                       IsBind(rec[i]) => rec[i].slot \in {0, material}
                /\ \A i \in 1..Len(rec) :
                       IsDrawIndexed(rec[i]) =>
                           /\ BoundAt(rec, i, 0) = "samplers"
                           /\ BoundAt(rec, i, 1) = "output"
                           /\ BoundAt(rec, i, material) = "material_data"
                           /\ isDraw => BoundAt(rec, i, 2) = "directional_light"
                           /\ isDraw => BoundAt(rec, i, 3) = "shader_uniforms"

\* draw has run two batches of a host set, binding the sampler group again
\* for the second
C17_Witness ==
    /\ Len(calls) = 3
    /\ calls[3].fn = "draw"
    /\ culled[1].calls.tag = "CPU"
    /\ Len(DrawsOf(Recorded(3))) = 2
    /\ \E i \in 7..Len(Recorded(3)) : Recorded(3)[i].kind = "samplers"

(* ------------------------------- C18 ----------------------------------- *)

\* an entry went from `before` to `after` by advancing its animation time by the
\* time elapsed since its own last frame, less whole durations of its own
AdvancedByOwnDelta(before, after, now) ==
    /\ after.duration = before.duration
    /\ \E k \in 0..MaxClock :
          before.animation_time + (now - before.last_frame_time)
              = after.animation_time + k * before.duration

\* C18: a MainEventsCleared leaves every entry with last_frame_time at that
\* event's clock reading and with animation_time advanced by the entry's own
\* elapsed time modulo its own duration; CloseRequested and RedrawRequested
\* leave every entry as it was; and after every step each entry's
\* animation_time is in [0, duration).
C18_AnimationTimes ==
    [][/\ event' = "MainEventsCleared" =>
             /\ Len(data') = Len(data)
             /\ \A i \in 1..Len(data) :
                    /\ data'[i].last_frame_time = cleared'
                    /\ cleared' >= data[i].last_frame_time
                    /\ AdvancedByOwnDelta(data[i], data'[i], cleared')
       /\ event' \in {"CloseRequested", "RedrawRequested"} => data' = data
       /\ \A i \in 1..Len(data') :
              /\ data'[i].animation_time >= 0
              /\ data'[i].animation_time < data'[i].duration]_vars

\* two scenes of different durations, set up at different times, have both
\* wrapped around by the latest MainEventsCleared
C18_Witness ==
    /\ event = "MainEventsCleared"
    /\ Len(data) = 2
    /\ data[1].duration = 2 /\ data[2].duration = 3
    /\ cleared = 5
    /\ data[1].last_frame_time = 5 /\ data[2].last_frame_time = 5
    /\ data[1].animation_time = 1 /\ data[2].animation_time = 1

====
